---- MODULE Spec2Model ----
(***************************************************************************)
(* Proof-of-work target computation of src/src/pow.cpp: the retarget       *)
(* dispatcher GetNextWorkRequired, the classic interval retarget, the      *)
(* LWMA retarget and CheckProofOfWork.                                     *)
(*                                                                         *)
(* A 256-bit unsigned integer (arith_uint256, uint256) is a sequence of    *)
(* WIDTH bytes, least significant first.  A 32-bit compact target is the   *)
(* record [size, word]: size is its top byte (nCompact >> 24) and word its *)
(* low 24 bits (sign bit 0x00800000 included).  Timestamps are below 2^31; *)
(* the int accumulator of the LWMA loop keeps its 32 bits, and the int64   *)
(* sum it is cut from is carried as two base-2^16 digits.                  *)
(***************************************************************************)
EXTENDS Integers, Sequences, FiniteSets, TLC

VARIABLES chain, params, call, ret

vars == <<chain, params, call, ret>>

(***************************************************************************)
(* arith_uint256: 256-bit unsigned arithmetic on little-endian bytes.      *)
(***************************************************************************)
WIDTH == 32

Limbs == 1..WIDTH

Zero256 == [i \in Limbs |-> 0]

\* base_uint(uint64_t b), for 0 <= b < 2^31
FromUint(b) ==
    [i \in Limbs |-> IF i = 1 THEN b % 256
                     ELSE IF i = 2 THEN (b \div 256) % 256
                     ELSE IF i = 3 THEN (b \div 65536) % 256
                     ELSE IF i = 4 THEN (b \div 16777216) % 256
                     ELSE 0]

\* x << 8*k : bytes move up by k places, the ones above WIDTH are dropped
ShlBytes(x, k) == [i \in Limbs |-> IF i - k >= 1 THEN x[i - k] ELSE 0]

\* x >> 8*k
ShrBytes(x, k) == [i \in Limbs |-> IF i + k <= WIDTH THEN x[i + k] ELSE 0]

\* (bits() + 7) / 8 : the number of significant bytes
SizeBytes(x) ==
    LET nz == {i \in Limbs : x[i] # 0}
    IN  IF nz = {} THEN 0 ELSE CHOOSE i \in nz : \A j \in nz : j <= i

\* GetLow64() of a value known to fit 24 bits
Low24(x) == x[1] + 256 * x[2] + 65536 * x[3]

RECURSIVE CompareFrom(_, _, _)
\* base_uint::CompareTo: scan from the most significant end down
CompareFrom(a, b, i) ==
    IF i = 0 THEN 0
    ELSE IF a[i] < b[i] THEN -1
    ELSE IF a[i] > b[i] THEN 1
    ELSE CompareFrom(a, b, i - 1)

CompareTo(a, b) == CompareFrom(a, b, WIDTH)

RECURSIVE AddFrom(_, _, _, _)
\* one 32-bit limb pn[] (bytes i..i+3) per step, with the carry into it
AddFrom(a, b, i, carry) ==
    IF i > WIDTH THEN <<>>
    ELSE LET s0 == a[i] + b[i] + carry
             s1 == a[i + 1] + b[i + 1] + (s0 \div 256)
             s2 == a[i + 2] + b[i + 2] + (s1 \div 256)
             s3 == a[i + 3] + b[i + 3] + (s2 \div 256)
         IN  <<s0 % 256, s1 % 256, s2 % 256, s3 % 256>>
                \o AddFrom(a, b, i + 4, s3 \div 256)

\* operator+= : sum modulo 2^256
Add256(a, b) == AddFrom(a, b, 1, 0)

RECURSIVE MulFrom(_, _, _, _)
MulFrom(a, m, i, carry) ==
    IF i > WIDTH THEN <<>>
    ELSE LET p0 == a[i] * m + carry
             p1 == a[i + 1] * m + (p0 \div 256)
             p2 == a[i + 2] * m + (p1 \div 256)
             p3 == a[i + 3] * m + (p2 \div 256)
         IN  <<p0 % 256, p1 % 256, p2 % 256, p3 % 256>>
                \o MulFrom(a, m, i + 4, p3 \div 256)

\* a * m modulo 2^256 for a scalar 0 <= m < 2^23 (the carry out of the top
\* limb is dropped, as in base_uint::operator*=)
MulSmall(a, m) == MulFrom(a, m, 1, 0)

\* a * m modulo 2^256 for a scalar 0 <= m < 2^31
Mul256(a, m) ==
    Add256(MulSmall(a, m % 65536), ShlBytes(MulSmall(a, m \div 65536), 2))

RECURSIVE DivFrom(_, _, _, _)
\* long division from the most significant limb (bytes i-3..i) down, rem
\* being the remainder of what lies above it (the test on q only makes the
\* quotient digits be computed before the limbs below are)
DivFrom(a, d, i, rem) ==
    IF i = 0 THEN <<>>
    ELSE LET c3 == rem * 256 + a[i]
             c2 == (c3 % d) * 256 + a[i - 1]
             c1 == (c2 % d) * 256 + a[i - 2]
             c0 == (c1 % d) * 256 + a[i - 3]
             q == <<c0 \div d, c1 \div d, c2 \div d, c3 \div d>>
         IN  IF Len(q) = 4 THEN DivFrom(a, d, i - 4, c0 % d) \o q ELSE <<>>

\* operator/= : floor(a / d) for a scalar 0 < d < 2^23
Div256(a, d) == DivFrom(a, d, WIDTH, 0)

\* uint256 -> arith_uint256: the same little-endian bytes, limb by limb
UintToArith256(u) == [i \in Limbs |-> u[i]]

(***************************************************************************)
(* Compact encoding.                                                       *)
(***************************************************************************)
SignBit == 8388608

\* nWord >> 8*k for a 24-bit word
ShrWord(w, k) == IF k = 0 THEN w ELSE IF k = 1 THEN w \div 256
                 ELSE IF k = 2 THEN w \div 65536 ELSE 0

\* arith_uint256::SetCompact(nCompact, &fNegative, &fOverflow)
SetCompact(nCompact) ==
    LET nSize == nCompact.size
        nWord0 == nCompact.word % SignBit
        nWord == IF nSize <= 3 THEN ShrWord(nWord0, 3 - nSize) ELSE nWord0
        value == IF nSize <= 3 THEN FromUint(nWord)
                 ELSE ShlBytes(FromUint(nWord), nSize - 3)
    IN  [value |-> value,
         fNegative |-> nWord # 0 /\ nCompact.word >= SignBit,
         fOverflow |-> nWord # 0 /\ (\/ nSize > 34
                                     \/ (nWord > 255 /\ nSize > 33)
                                     \/ (nWord > 65535 /\ nSize > 32))]

\* arith_uint256::GetCompact()
GetCompact(x) ==
    LET nSize == SizeBytes(x)
        nCompact == IF nSize <= 3
                    THEN Low24(x) * (IF nSize = 3 THEN 1 ELSE IF nSize = 2 THEN 256
                                     ELSE IF nSize = 1 THEN 65536 ELSE 16777216)
                    ELSE Low24(ShrBytes(x, nSize - 3))
    IN  IF nCompact >= SignBit
        THEN [size |-> nSize + 1, word |-> nCompact \div 256]
        ELSE [size |-> nSize, word |-> nCompact]

(***************************************************************************)
(* Inputs: 256-bit values, compact targets, consensus parameters.          *)
(***************************************************************************)
Compact(size, word) == [size |-> size, word |-> word]

\* 2^224 - 1 (compact 0x1d00ffff) and 2^255 - 1 (compact 0x207fffff)
PowLimitMain == [i \in Limbs |-> IF i <= 28 THEN 255 ELSE 0]

PowLimitRegtest == [i \in Limbs |-> IF i = WIDTH THEN 127 ELSE 255]

AllOnes256 == [i \in Limbs |-> 255]

\* 0xffff * 2^208, the value 0x1d00ffff decodes to, and its two neighbours
TargetMain == [i \in Limbs |-> IF i \in {27, 28} THEN 255 ELSE 0]

TargetMainMinusOne ==
    [i \in Limbs |-> IF i <= 26 THEN 255 ELSE IF i = 27 THEN 254
                     ELSE IF i = 28 THEN 255 ELSE 0]

TargetMainPlusOne ==
    [i \in Limbs |-> IF i = 1 THEN 1 ELSE IF i \in {27, 28} THEN 255 ELSE 0]

NoCompact == Compact(0, 0)

NoCall == [op |-> "none", hash |-> Zero256, nBits |-> NoCompact,
           blockTime |-> 0, nFirstBlockTime |-> 0]

\* no call has been made yet on the inputs of this behaviour
Idle == call.op = "none"

NoRet == [kind |-> "none", ok |-> FALSE, bits |-> NoCompact, t |-> 0, path |-> "none"]

\* Consensus::Params: the fields pow.cpp reads.  The adjustment interval and
\* the target timespan are functions of height: one value below
\* nSwitchHeight, another from it on.
DefaultParams ==
    [powLimit |-> PowLimitMain,
     nPowTargetSpacing |-> 60,
     fPowAllowMinDifficultyBlocks |-> FALSE,
     fPowNoRetargeting |-> FALSE,
     zawyLWMAHeight |-> 0,
     nSwitchHeight |-> 0,
     nInterval |-> <<3, 3>>,
     nTimespan |-> <<180, 180>>]

DifficultyAdjustmentIntervalAtHeight(p, nHeight) ==
    IF nHeight < p.nSwitchHeight THEN p.nInterval[1] ELSE p.nInterval[2]

getPowTargetTimespan(p, nHeight) ==
    IF nHeight < p.nSwitchHeight THEN p.nTimespan[1] ELSE p.nTimespan[2]

(***************************************************************************)
(* CheckProofOfWork                                                        *)
(***************************************************************************)
\* a check that rejects a hash equal to the target
CheckProofOfWorkStrict(hash, nBits, p) ==
    LET bnTarget == SetCompact(nBits)
    IN  IF \/ bnTarget.fNegative
           \/ bnTarget.value = Zero256
           \/ bnTarget.fOverflow
           \/ CompareTo(bnTarget.value, UintToArith256(p.powLimit)) > 0
        THEN FALSE
        ELSE IF CompareTo(UintToArith256(hash), bnTarget.value) >= 0
        THEN FALSE
        ELSE TRUE

CheckProofOfWork(hash, nBits, p) ==
    LET bnTarget == SetCompact(nBits)
    IN  IF \/ bnTarget.fNegative
           \/ bnTarget.value = Zero256
           \/ bnTarget.fOverflow
           \/ CompareTo(bnTarget.value, UintToArith256(p.powLimit)) > 0
        THEN FALSE
        ELSE IF CompareTo(UintToArith256(hash), bnTarget.value) > 0
        THEN FALSE
        ELSE TRUE

PowLimits == {PowLimitMain, PowLimitRegtest, TargetMain}

Hashes ==
    {Zero256, FromUint(1), TargetMainMinusOne, TargetMain, TargetMainPlusOne,
     PowLimitMain, PowLimitRegtest, AllOnes256, ShlBytes(FromUint(1), 30),
     ShlBytes(FromUint(127), 31), FromUint(4660)}

\* Compact targets: canonical ones, the sign bit set, a zero mantissa, sizes
\* of at most 3, and the three overflow shapes of SetCompact with their
\* largest non-overflowing neighbours.
CompactInputs ==
    {Compact(29, 65535), Compact(29, 65535 + SignBit), Compact(28, 8388607),
     Compact(30, 65535), Compact(32, 8388607), Compact(0, 0), Compact(1, 3430400),
     Compact(1, 65536 + SignBit), Compact(2, 1193046), Compact(3, 1),
     Compact(4, SignBit), Compact(35, 1), Compact(34, 256), Compact(33, 65536),
     Compact(34, 127), Compact(33, 65535), Compact(32, 65536), Compact(255, 1),
     Compact(29, 0), Compact(33, 128)}

InitPoW ==
    /\ chain = <<>>
    /\ params \in {[DefaultParams EXCEPT !.powLimit = l] : l \in PowLimits}
    /\ call = NoCall
    /\ ret = NoRet

CallCheckProofOfWork ==
    \E hash \in Hashes, nBits \in CompactInputs :
       /\ Idle
       /\ call' = [NoCall EXCEPT !.op = "CheckProofOfWork", !.hash = hash,
                                 !.nBits = nBits]
       /\ ret' = [NoRet EXCEPT !.kind = "bool",
                               !.ok = CheckProofOfWork(hash, nBits, params)]
       /\ UNCHANGED <<chain, params>>

NextPoW == CallCheckProofOfWork

SpecPoW == InitPoW /\ [][NextPoW]_vars

(***************************************************************************)
(* The chain: chain[i] is the block of height i - 1, with its timestamp    *)
(* nTime and its compact target nBits.  pindexLast is the tip; pprev of    *)
(* the block at index i is index i - 1, and the block of height 0 has      *)
(* none.                                                                   *)
(***************************************************************************)
Block(nTime, nBits) == [nTime |-> nTime, nBits |-> nBits]

nHeightOf(idx) == idx - 1

\* CBlockIndex::GetAncestor(height) from the block at index idx: index 0
\* (nullptr) when height is negative or above the block's own height
GetAncestor(idx, height) ==
    IF height > nHeightOf(idx) \/ height < 0 THEN 0 ELSE height + 1

Returned(bits, path) == [NoRet EXCEPT !.kind = "bits", !.bits = bits, !.path = path]

\* a failed assert: the process aborts and nothing is returned
Aborted(path) == [NoRet EXCEPT !.kind = "abort", !.path = path]

(***************************************************************************)
(* CalculateNextWorkRequired                                               *)
(***************************************************************************)
\* a clamp whose floor is half the target timespan instead of a quarter
ClampTimespanHalf(nActualTimespan, powTargetTimespan) ==
    LET lo == IF nActualTimespan < powTargetTimespan \div 2
              THEN powTargetTimespan \div 2 ELSE nActualTimespan
    IN  IF lo > powTargetTimespan * 4 THEN powTargetTimespan * 4 ELSE lo

\* the timespan clamp of lines 82-86
ClampTimespan(nActualTimespan, powTargetTimespan) ==
    LET lo == IF nActualTimespan < powTargetTimespan \div 4
              THEN powTargetTimespan \div 4 ELSE nActualTimespan
    IN  IF lo > powTargetTimespan * 4 THEN powTargetTimespan * 4 ELSE lo

\* a retarget that forgets the powLimit clamp
NoClampToLimit(bn, bnPowLimit) == bn

\* the powLimit clamp of lines 95-96 and 171-173
ClampToLimit(bn, bnPowLimit) ==
    IF CompareTo(bn, bnPowLimit) > 0 THEN bnPowLimit ELSE bn

CalculateNextWorkRequired(c, nFirstBlockTime, p) ==
    LET pindexLast == Len(c)
    IN  IF p.fPowNoRetargeting
        THEN Returned(c[pindexLast].nBits, "noretarget")
        ELSE LET powTargetTimespan == getPowTargetTimespan(p, nHeightOf(pindexLast))
                 nActualTimespan ==
                     ClampTimespan(c[pindexLast].nTime - nFirstBlockTime,
                                   powTargetTimespan)
                 bnPowLimit == UintToArith256(p.powLimit)
                 bnSet == SetCompact(c[pindexLast].nBits).value
                 \* operator*=(uint32_t): the clamped timespan is below 2^31 here
                 bnMul == Mul256(bnSet, nActualTimespan)
                 bnNew == Div256(bnMul, powTargetTimespan)
             IN  Returned(GetCompact(ClampToLimit(bnNew, bnPowLimit)), "retarget")

(***************************************************************************)
(* PreLWMAGetNextWorkRequired                                              *)
(***************************************************************************)
RECURSIVE WalkBackAcrossIntervals(_, _, _, _)
\* a walk that does not stop at the first block of an interval
WalkBackAcrossIntervals(c, pindex, diffInterval, nProofOfWorkLimit) ==
    IF pindex > 1 /\ c[pindex].nBits = nProofOfWorkLimit
    THEN WalkBackAcrossIntervals(c, pindex - 1, diffInterval, nProofOfWorkLimit)
    ELSE pindex

RECURSIVE WalkBack(_, _, _, _)
\* the while loop of lines 56-57: the index of the block it stops at
WalkBack(c, pindex, diffInterval, nProofOfWorkLimit) ==
    IF /\ pindex > 1
       /\ nHeightOf(pindex) % diffInterval # 0
       /\ c[pindex].nBits = nProofOfWorkLimit
    THEN WalkBack(c, pindex - 1, diffInterval, nProofOfWorkLimit)
    ELSE pindex

\* a gap test that also fires on a gap of exactly 2 * nPowTargetSpacing
MinDifficultyGapInclusive(c, blockTime, p) ==
    blockTime >= c[Len(c)].nTime + p.nPowTargetSpacing * 2

\* the gap test of lines 50 and 128
MinDifficultyGap(c, blockTime, p) ==
    blockTime > c[Len(c)].nTime + p.nPowTargetSpacing * 2

\* a retarget that reaches one block too far back
HeightFirstOffByOne(nHeight, diffInterval) == nHeight - diffInterval

\* line 65: the height of the first block of the interval that just ended
HeightFirst(nHeight, diffInterval) == nHeight - (diffInterval - 1)

PreLWMAGetNextWorkRequired(c, blockTime, p) ==
    LET pindexLast == Len(c)
        nHeight == nHeightOf(pindexLast)
        nProofOfWorkLimit == GetCompact(UintToArith256(p.powLimit))
        diffInterval == DifficultyAdjustmentIntervalAtHeight(p, nHeight)
    IN  IF (nHeight + 1) % diffInterval # 0
        THEN IF p.fPowAllowMinDifficultyBlocks
             THEN IF MinDifficultyGap(c, blockTime, p)
                  THEN Returned(nProofOfWorkLimit, "escape")
                  ELSE Returned(c[WalkBack(c, pindexLast, diffInterval,
                                           nProofOfWorkLimit)].nBits, "walk")
             ELSE Returned(c[pindexLast].nBits, "unchanged")
        ELSE LET nHeightFirst == HeightFirst(nHeight, diffInterval)
                 pindexFirst == GetAncestor(pindexLast, nHeightFirst)
             IN  IF ~(nHeightFirst >= 0) THEN Aborted("assert66")
                 ELSE IF pindexFirst = 0 THEN Aborted("assert68")
                 ELSE CalculateNextWorkRequired(c, c[pindexFirst].nTime, p)

(***************************************************************************)
(* LWMA                                                                    *)
(***************************************************************************)
N == 45

k == 1377

\* (int)(t + solvetime * j): the int64 sum is exact, its conversion to the
\* 32-bit int t keeps the low 32 bits.  hi and lo are the base-2^16 digits.
AccumulateT(t, solvetime, j) ==
    LET lo == (t % 65536) + (solvetime % 65536) * j
        hi == (t \div 65536) + (solvetime \div 65536) * j + (lo \div 65536)
    IN  (((hi + 32768) % 65536) - 32768) * 65536 + (lo % 65536)

RECURSIVE LwmaLoop(_, _, _, _, _)
\* the for loop of lines 149-163, from height i on, with j, t and sum_target
\* as they stand before the iteration (the test on tNext and sumNext only
\* makes the iteration's values be computed before the next one starts)
LwmaLoop(c, i, j, t, sum_target) ==
    IF ~(i < Len(c)) THEN [t |-> t, sum_target |-> sum_target]
    ELSE LET block == GetAncestor(Len(c), i)
             block_Prev == GetAncestor(block, i - 1)
             solvetime == c[block].nTime - c[block_Prev].nTime
             target == SetCompact(c[block].nBits).value
             tNext == AccumulateT(t, solvetime, j + 1)
             sumNext == Add256(sum_target, Div256(target, k * N * N))
         IN  IF tNext = tNext /\ sumNext = sumNext
             THEN LwmaLoop(c, i + 1, j + 1, tNext, sumNext)
             ELSE [t |-> t, sum_target |-> sum_target]

\* the floor of lines 165-167
FloorT(t) == IF t < (N * k) \div 3 THEN (N * k) \div 3 ELSE t

LwmaCalculateNextWorkRequired(c, p) ==
    LET pindexLast == Len(c)
        height == nHeightOf(pindexLast) + 1
    IN  IF p.fPowNoRetargeting
        THEN Returned(c[pindexLast].nBits, "noretarget")
        ELSE IF ~(height > N) THEN Aborted("assert143")
        ELSE LET acc == LwmaLoop(c, height - N, 0, 0, Zero256)
                 t == FloorT(acc.t)
                 pow_limit == UintToArith256(p.powLimit)
                 next_target == Mul256(acc.sum_target, t)
             IN  [Returned(GetCompact(ClampToLimit(next_target, pow_limit)), "lwma")
                    EXCEPT !.t = t]

LwmaGetNextWorkRequired(c, blockTime, p) ==
    IF p.fPowAllowMinDifficultyBlocks /\ MinDifficultyGap(c, blockTime, p)
    THEN Returned(GetCompact(UintToArith256(p.powLimit)), "escape")
    ELSE LwmaCalculateNextWorkRequired(c, p)

(***************************************************************************)
(* GetNextWorkRequired                                                     *)
(***************************************************************************)
\* an activation test that starts LWMA one block late
postLWMAStrict(c, p) == nHeightOf(Len(c)) + 1 > p.zawyLWMAHeight

\* line 21
postLWMA(c, p) == nHeightOf(Len(c)) + 1 >= p.zawyLWMAHeight

GetNextWorkRequired(c, blockTime, p) ==
    IF postLWMA(c, p) = FALSE
    THEN PreLWMAGetNextWorkRequired(c, blockTime, p)
    ELSE LwmaGetNextWorkRequired(c, blockTime, p)

(***************************************************************************)
(* Chains and parameter sets the calls are made on.                        *)
(***************************************************************************)
\* the timestamp of the block of height 0
GenesisTime == 100000000

\* len blocks, step seconds apart, all with the same bits; the tip is moved
\* by tipDelta seconds
UniformChain(len, step, tipDelta, bits) ==
    [i \in 1..len |->
        Block(GenesisTime + (i - 1) * step + (IF i = len THEN tipDelta ELSE 0), bits)]

\* blocks above the LWMA window that the longest chain carries
MaxExtra == 2

\* <<step, tipDelta>>: steady, instant, slow and backward block times, and a
\* tip far in the future or in the past
TimePatterns ==
    {<<60, 0>>, <<0, 0>>, <<600, 0>>, <<-60, 0>>, <<60, 50000000>>,
     <<60, -50000000>>, <<0, 47721858>>, <<0, 47721859>>}

RetargetBits ==
    {Compact(29, 65535), Compact(28, 8388607), Compact(27, 263371),
     Compact(32, 8388607), Compact(30, 255), Compact(29, 65535 + SignBit),
     Compact(3, 1193046), Compact(29, 0)}

RetargetChains ==
    {UniformChain(len, tp[1], tp[2], bits) :
        len \in {N + 1, N + 1 + MaxExtra}, tp \in TimePatterns, bits \in RetargetBits}

\* <<nSwitchHeight, nTimespan>>
TimespanConfigs == {<<0, <<180, 180>>>>, <<1000, <<1209600, 180>>>>, <<47, <<7, 1209600>>>>}

RetargetParams ==
    {[DefaultParams EXCEPT !.powLimit = l, !.fPowNoRetargeting = nr,
                           !.nSwitchHeight = tc[1], !.nTimespan = tc[2]] :
        l \in {PowLimitMain, PowLimitRegtest}, nr \in BOOLEAN, tc \in TimespanConfigs}

\* actual timespans tried by a direct call, for target timespan ts: on the
\* target, on and beyond both clamps, zero and negative
ActualTimespans(ts) ==
    {ts, ts \div 4, ts \div 4 - 1, ts * 4, ts * 4 + 1, ts \div 8, ts * 8, 0, -ts,
     ts + 1, ts * 2}

InitRetarget ==
    /\ chain \in RetargetChains
    /\ params \in RetargetParams
    /\ call = NoCall
    /\ ret = NoRet

CallCalculateNextWorkRequired ==
    \E span \in ActualTimespans(getPowTargetTimespan(params, nHeightOf(Len(chain)))) :
       LET nFirstBlockTime == chain[Len(chain)].nTime - span
       IN  /\ Idle
           /\ call' = [NoCall EXCEPT !.op = "CalculateNextWorkRequired",
                                     !.nFirstBlockTime = nFirstBlockTime]
           /\ ret' = CalculateNextWorkRequired(chain, nFirstBlockTime, params)
           /\ UNCHANGED <<chain, params>>

CallLwmaCalculateNextWorkRequired ==
    /\ Idle
    /\ call' = [NoCall EXCEPT !.op = "LwmaCalculateNextWorkRequired"]
    /\ ret' = LwmaCalculateNextWorkRequired(chain, params)
    /\ UNCHANGED <<chain, params>>

NextRetarget == CallCalculateNextWorkRequired \/ CallLwmaCalculateNextWorkRequired

SpecRetarget == InitRetarget /\ [][NextRetarget]_vars

(***************************************************************************)
(* GetNextWorkRequired on short chains (classic path, LWMA below its       *)
(* window) and on chains long enough for the LWMA window.                  *)
(***************************************************************************)
\* the longest of the short chains
MaxShort == 4

\* seconds between the blocks of a short chain
Steps == {60, -7}

WorkBits == {Compact(29, 65535), Compact(28, 65535)}

ShortChains ==
    UNION {{[i \in 1..len |-> Block(GenesisTime + (i - 1) * step, b[i])] :
               b \in [1..len -> WorkBits], step \in Steps} : len \in 1..MaxShort}

LongChains ==
    {UniformChain(len, 60, 0, bits) : len \in {N, N + 1, N + 2}, bits \in WorkBits}

\* <<nSwitchHeight, nInterval>>
IntervalConfigs == {<<0, <<3, 3>>>>, <<0, <<1, 1>>>>, <<2, <<2, 4>>>>}

WorkParams ==
    {[DefaultParams EXCEPT !.powLimit = l, !.fPowAllowMinDifficultyBlocks = am,
                           !.fPowNoRetargeting = nr, !.zawyLWMAHeight = zh,
                           !.nSwitchHeight = ic[1], !.nInterval = ic[2]] :
        l \in {PowLimitMain, PowLimitRegtest}, am \in BOOLEAN, nr \in BOOLEAN,
        zh \in {3, N + 2, 1000}, ic \in IntervalConfigs}

\* the candidate block's time, in seconds after the tip: within the gap
\* of 2 * nPowTargetSpacing, exactly on it, one second past it
GapOffsets(p) == {p.nPowTargetSpacing, p.nPowTargetSpacing * 2,
                  p.nPowTargetSpacing * 2 + 1}

Init ==
    /\ chain \in ShortChains \cup LongChains
    /\ params \in WorkParams
    /\ call = NoCall
    /\ ret = NoRet

CallGetNextWorkRequired ==
    \E off \in GapOffsets(params) :
       LET blockTime == chain[Len(chain)].nTime + off
       IN  /\ Idle
           /\ call' = [NoCall EXCEPT !.op = "GetNextWorkRequired",
                                     !.blockTime = blockTime]
           /\ ret' = GetNextWorkRequired(chain, blockTime, params)
           /\ UNCHANGED <<chain, params>>

Next == CallGetNextWorkRequired

Spec == Init /\ [][Next]_vars

(***************************************************************************)
(* Orderings used to state properties: a <= b as 256-bit magnitudes, said  *)
(* through the most significant byte in which a and b differ.              *)
(***************************************************************************)
ULess(a, b) ==
    \E i \in Limbs : a[i] < b[i] /\ \A j \in Limbs : j > i => a[j] = b[j]

ULeq(a, b) == a = b \/ ULess(a, b)

\* C1: CheckProofOfWork returns true exactly when decoding nBits reports
\* neither the negative nor the overflow flag, the decoded target is in
\* (0, powLimit], and hash <= target as unsigned 256-bit magnitudes; in
\* every other case it returns false.
C1_CheckProofOfWorkIff ==
    call.op = "CheckProofOfWork" =>
       LET d == SetCompact(call.nBits)
       IN  /\ ret.kind = "bool"
           /\ ret.ok <=> /\ ~d.fNegative
                         /\ ~d.fOverflow
                         /\ ULess(Zero256, d.value)
                         /\ ULeq(d.value, params.powLimit)
                         /\ ULeq(call.hash, d.value)

\* a call accepted with the hash exactly on the target, the target exactly powLimit
C1_Witness ==
    /\ call.op = "CheckProofOfWork"
    /\ ret.ok
    /\ call.hash = SetCompact(call.nBits).value
    /\ call.hash = params.powLimit

(***************************************************************************)
(* What the properties below read off a state.                             *)
(***************************************************************************)
Tip == chain[Len(chain)]

\* the height of the candidate block
CandidateHeight == (Len(chain) - 1) + 1

\* the compact encoding of the two powLimit values, written out:
\* 0x1d00ffff and 0x207fffff
LimitBits(p) == IF p.powLimit = PowLimitMain THEN Compact(29, 65535)
                ELSE Compact(32, 8388607)

Decoded(bits) == SetCompact(bits).value

\* bits decode to a target in (0, powLimit]
InRange(bits, p) ==
    ULess(Zero256, Decoded(bits)) /\ ULeq(Decoded(bits), p.powLimit)

WorkCalled == call.op = "GetNextWorkRequired"

OnLwmaPath == CandidateHeight >= params.zawyLWMAHeight

IntervalAtTip == DifficultyAdjustmentIntervalAtHeight(params, Len(chain) - 1)

AtBoundary == CandidateHeight % IntervalAtTip = 0

\* C2: GetNextWorkRequired returns exactly the LWMA retargeter's result when
\* height = lastBlock.height + 1 >= lwmaActivationHeight and exactly the
\* classic retargeter's result when height < lwmaActivationHeight; at
\* height = lwmaActivationHeight it is the LWMA result.
C2_DispatchByHeight ==
    WorkCalled =>
       /\ CandidateHeight >= params.zawyLWMAHeight
             => ret = LwmaGetNextWorkRequired(chain, call.blockTime, params)
       /\ CandidateHeight < params.zawyLWMAHeight
             => ret = PreLWMAGetNextWorkRequired(chain, call.blockTime, params)

\* the candidate is the activation block and the LWMA loop computed its target
C2_Witness ==
    /\ WorkCalled
    /\ CandidateHeight = params.zawyLWMAHeight
    /\ ret.path = "lwma"
    /\ ret # PreLWMAGetNextWorkRequired(chain, call.blockTime, params)

\* C6: with allowMinDifficultyBlocks set and the candidate's time strictly
\* more than 2 * targetSpacing after the tip's, GetNextWorkRequired returns
\* the compact encoding of powLimit, on the classic path at every
\* non-boundary height and on the LWMA path at every height, whatever
\* noRetargeting and the ancestors are; with a gap of exactly
\* 2 * targetSpacing the escape is not taken.
C6_MinDifficultyEscape ==
    (WorkCalled /\ params.fPowAllowMinDifficultyBlocks /\ (OnLwmaPath \/ ~AtBoundary)) =>
       /\ call.blockTime > Tip.nTime + 2 * params.nPowTargetSpacing
             => ret.kind = "bits" /\ ret.bits = LimitBits(params) /\ ret.path = "escape"
       /\ call.blockTime = Tip.nTime + 2 * params.nPowTargetSpacing
             => /\ ret.path # "escape"
                /\ OnLwmaPath => ret = LwmaCalculateNextWorkRequired(chain, params)
                /\ ~OnLwmaPath => ret.path = "walk"

\* the escape on the LWMA path below the LWMA window, with noRetargeting set
\* and a tip whose bits are not the limit
C6_Witness ==
    /\ WorkCalled
    /\ OnLwmaPath
    /\ CandidateHeight <= N
    /\ params.fPowNoRetargeting
    /\ ret.path = "escape"
    /\ ret.bits = LimitBits(params)
    /\ Tip.nBits # ret.bits

\* C8 as claimed: on the LWMA path at a candidate height <= N the call
\* aborts and returns no target, for every parameter setting.
C8_AbortsBelowWindow ==
    (WorkCalled /\ OnLwmaPath /\ CandidateHeight <= N) => ret.kind = "abort"

\* where the walk of C9 stops: the first block of an interval, bits other
\* than the limit, or no previous block
WalkStops(b) ==
    \/ (b - 1) % IntervalAtTip = 0
    \/ chain[b].nBits # LimitBits(params)
    \/ b = 1

\* C9: at a non-boundary height on the classic path, with
\* allowMinDifficultyBlocks set and no gap beyond 2 * targetSpacing, the
\* result is the bits of the nearest block, from the tip backward, at which
\* the walk stops, every block walked past having height % interval # 0 and
\* the limit's bits; with allowMinDifficultyBlocks unset the result is the
\* tip's bits.
C9_WalkBack ==
    (WorkCalled /\ ~OnLwmaPath /\ ~AtBoundary) =>
       /\ ret.kind = "bits"
       /\ (/\ params.fPowAllowMinDifficultyBlocks
           /\ call.blockTime <= Tip.nTime + 2 * params.nPowTargetSpacing)
             => \E b \in 1..Len(chain) :
                   /\ WalkStops(b)
                   /\ \A j \in (b + 1)..Len(chain) : ~WalkStops(j)
                   /\ ret.bits = chain[b].nBits
       /\ ~params.fPowAllowMinDifficultyBlocks => ret.bits = Tip.nBits

\* the walk went past the tip and its parent, both mined at the limit
C9_Witness ==
    /\ WorkCalled
    /\ ret.path = "walk"
    /\ Len(chain) >= 3
    /\ Tip.nBits = LimitBits(params)
    /\ chain[Len(chain) - 1].nBits = LimitBits(params)
    /\ ret.bits # LimitBits(params)

\* C10: on the classic path at a boundary height the interval's first
\* height lastBlock.height - (interval - 1) lies in 0..lastBlock.height, no
\* assertion fails, and the result is CalculateNextWorkRequired on that
\* block's timestamp.
C10_BoundaryNeverAborts ==
    (WorkCalled /\ ~OnLwmaPath /\ AtBoundary) =>
       LET first == (Len(chain) - 1) - (IntervalAtTip - 1)
       IN  /\ first >= 0
           /\ first <= Len(chain) - 1
           /\ ret.kind = "bits"
           /\ ret = CalculateNextWorkRequired(chain, chain[first + 1].nTime, params)

\* a boundary of an interval of several blocks, where the retarget changed
\* the target
C10_Witness ==
    /\ WorkCalled
    /\ ~OnLwmaPath
    /\ AtBoundary
    /\ IntervalAtTip > 1
    /\ ret.path = "retarget"
    /\ ret.bits # Tip.nBits

(***************************************************************************)
(* Properties of the two retarget computations called directly.            *)
(***************************************************************************)
ClassicCalled == call.op = "CalculateNextWorkRequired"

LwmaCalled == call.op = "LwmaCalculateNextWorkRequired"

ChainInRange ==
    \A bits \in {chain[i].nBits : i \in 1..Len(chain)} : InRange(bits, params)

TimespanAtTip == getPowTargetTimespan(params, Len(chain) - 1)

\* lastBlock.timestamp - firstBlockTime of a direct classic call
ActualTimespan == Tip.nTime - call.nFirstBlockTime

Quarter(x) == Div256(x, 4)

Times4(x) == MulSmall(x, 4)

\* a and b differ by at most one
WithinOne(a, b) ==
    a = b \/ Add256(a, FromUint(1)) = b \/ Add256(b, FromUint(1)) = a

\* C3: on a chain whose blocks all carry bits decoding to a target in
\* (0, powLimit], whatever the timestamps, the target decoded from what
\* CalculateNextWorkRequired returns is <= powLimit, and so is the target
\* decoded from what LwmaCalculateNextWorkRequired returns (height > 45).
C3_OutputWithinLimit ==
    ((ClassicCalled \/ LwmaCalled) /\ ChainInRange) =>
       /\ ret.kind = "bits"
       /\ ULeq(Decoded(ret.bits), params.powLimit)

\* the LWMA product t * sum_target went past powLimit and was cut back to it
C3_Witness ==
    /\ LwmaCalled
    /\ ChainInRange
    /\ ret.path = "lwma"
    /\ ret.t > (N * k) \div 3
    /\ ret.bits = LimitBits(params)
    /\ Tip.nBits # LimitBits(params)

\* C4 as claimed: with noRetargeting unset and an actual timespan equal to
\* targetTimespan, the target decoded from the result equals the target
\* decoded from lastBlock.bits, for every input target in (0, powLimit].
C4_SteadyStateFixedPoint ==
    (/\ ClassicCalled
     /\ ~params.fPowNoRetargeting
     /\ ActualTimespan = TimespanAtTip
     /\ InRange(Tip.nBits, params))
       => Decoded(ret.bits) = Decoded(Tip.nBits)

\* C5 as claimed: below targetTimespan/4 the output target is inputTarget/4
\* within integer-division rounding, above targetTimespan*4 it is
\* inputTarget*4, and it never leaves [inputTarget/4, inputTarget*4].
C5_ClampQuarterAndFourfold ==
    (ClassicCalled /\ ~params.fPowNoRetargeting /\ InRange(Tip.nBits, params)) =>
       LET in == Decoded(Tip.nBits)
           out == Decoded(ret.bits)
       IN  /\ ActualTimespan < TimespanAtTip \div 4 => WithinOne(out, Quarter(in))
           /\ ActualTimespan > TimespanAtTip * 4
                 => out = Times4(in) /\ Quarter(Times4(in)) = in
           /\ ULeq(Quarter(in), out)
           /\ ULeq(Quarter(out), in)

\* C5 as amended: an actual timespan below targetTimespan/4 gives the result
\* of an actual timespan of exactly targetTimespan/4, whose target is at
\* most inputTarget/4; one above targetTimespan*4 gives the result of
\* exactly targetTimespan*4; and for all timestamps the output target is at
\* most inputTarget*4 and at most powLimit.
C5_ClampBoundsAbove ==
    (ClassicCalled /\ ~params.fPowNoRetargeting /\ InRange(Tip.nBits, params)) =>
       LET in == Decoded(Tip.nBits)
           out == Decoded(ret.bits)
       IN  /\ ActualTimespan < TimespanAtTip \div 4
                 => /\ ret = CalculateNextWorkRequired(
                               chain, Tip.nTime - TimespanAtTip \div 4, params)
                    /\ ULeq(out, Quarter(in))
           /\ ActualTimespan > TimespanAtTip * 4
                 => ret = CalculateNextWorkRequired(
                             chain, Tip.nTime - TimespanAtTip * 4, params)
           /\ ULeq(out, params.powLimit)
           /\ ULeq(Quarter(out), in)

\* a first block later than the last one: the negative timespan is clamped
\* and the new target is exactly a quarter of the old one
C5_Witness ==
    /\ ClassicCalled
    /\ ~params.fPowNoRetargeting
    /\ InRange(Tip.nBits, params)
    /\ ActualTimespan < 0
    /\ ret.path = "retarget"
    /\ Decoded(ret.bits) = Quarter(Decoded(Tip.nBits))
    /\ Decoded(ret.bits) # Zero256

\* the solvetime at position j of the LWMA window: the timestamp at height
\* height - N - 1 + j less the one at height - N - 2 + j
WindowSolvetime(j) ==
    chain[Len(chain) - N + j].nTime - chain[Len(chain) - N + j - 1].nTime

RECURSIVE WeightedHigh(_)
\* sum over i = 1..j of i * floor(solvetime(i) / 2^16)
WeightedHigh(j) ==
    IF j = 0 THEN 0 ELSE WeightedHigh(j - 1) + j * (WindowSolvetime(j) \div 65536)

RECURSIVE WeightedLow(_)
\* sum over i = 1..j of i * (solvetime(i) mod 2^16)
WeightedLow(j) ==
    IF j = 0 THEN 0 ELSE WeightedLow(j - 1) + j * (WindowSolvetime(j) % 65536)

\* C7 as claimed: the multiplier t applied to sum_target is
\* max(N*k/3, sum over j = 1..N of j * solvetime(j)) over the mathematical
\* integers.  The sum is 2^16 * high + low.
C7_WeightedSolvetimeSum ==
    (LwmaCalled /\ ret.path = "lwma") =>
       LET high == WeightedHigh(N) + (WeightedLow(N) \div 65536)
           low == WeightedLow(N) % 65536
       IN  IF high < 0 \/ (high = 0 /\ low < (N * k) \div 3)
           THEN ret.t = (N * k) \div 3
           ELSE /\ high <= 32767
                /\ ret.t = high * 65536 + low
====
